---- MODULE Spec2Model ----
(***************************************************************************)
(* Title_Creator (src/title_creator.py): the Morse codec, the timing model *)
(* of MorseAudioGenerator and the playback dispatcher of TextOverlayApp.   *)
(*                                                                         *)
(* Strings are sequences of one-character strings.  Durations are exact    *)
(* rationals [n |-> numerator, d |-> denominator] in seconds.              *)
(***************************************************************************)
EXTENDS Integers, Sequences, FiniteSets, TLC

(***************************************************************************)
(* The code table, in the source's insertion order (lines 26-38).          *)
(***************************************************************************)
MORSE_LETTERS ==
  << [ch |-> "A", pat |-> <<".", "-">>],
     [ch |-> "B", pat |-> <<"-", ".", ".", ".">>],
     [ch |-> "C", pat |-> <<"-", ".", "-", ".">>],
     [ch |-> "D", pat |-> <<"-", ".", ".">>],
     [ch |-> "E", pat |-> <<".">>],
     [ch |-> "F", pat |-> <<".", ".", "-", ".">>],
     [ch |-> "G", pat |-> <<"-", "-", ".">>],
     [ch |-> "H", pat |-> <<".", ".", ".", ".">>],
     [ch |-> "I", pat |-> <<".", ".">>],
     [ch |-> "J", pat |-> <<".", "-", "-", "-">>],
     [ch |-> "K", pat |-> <<"-", ".", "-">>],
     [ch |-> "L", pat |-> <<".", "-", ".", ".">>],
     [ch |-> "M", pat |-> <<"-", "-">>],
     [ch |-> "N", pat |-> <<"-", ".">>],
     [ch |-> "O", pat |-> <<"-", "-", "-">>],
     [ch |-> "P", pat |-> <<".", "-", "-", ".">>],
     [ch |-> "Q", pat |-> <<"-", "-", ".", "-">>],
     [ch |-> "R", pat |-> <<".", "-", ".">>],
     [ch |-> "S", pat |-> <<".", ".", ".">>],
     [ch |-> "T", pat |-> <<"-">>],
     [ch |-> "U", pat |-> <<".", ".", "-">>],
     [ch |-> "V", pat |-> <<".", ".", ".", "-">>],
     [ch |-> "W", pat |-> <<".", "-", "-">>],
     [ch |-> "X", pat |-> <<"-", ".", ".", "-">>],
     [ch |-> "Y", pat |-> <<"-", ".", "-", "-">>],
     [ch |-> "Z", pat |-> <<"-", "-", ".", ".">>] >>

MORSE_DIGITS ==
  << [ch |-> "0", pat |-> <<"-", "-", "-", "-", "-">>],
     [ch |-> "1", pat |-> <<".", "-", "-", "-", "-">>],
     [ch |-> "2", pat |-> <<".", ".", "-", "-", "-">>],
     [ch |-> "3", pat |-> <<".", ".", ".", "-", "-">>],
     [ch |-> "4", pat |-> <<".", ".", ".", ".", "-">>],
     [ch |-> "5", pat |-> <<".", ".", ".", ".", ".">>],
     [ch |-> "6", pat |-> <<"-", ".", ".", ".", ".">>],
     [ch |-> "7", pat |-> <<"-", "-", ".", ".", ".">>],
     [ch |-> "8", pat |-> <<"-", "-", "-", ".", ".">>],
     [ch |-> "9", pat |-> <<"-", "-", "-", "-", ".">>] >>

MORSE_PUNCT ==
  << [ch |-> ".", pat |-> <<".", "-", ".", "-", ".", "-">>],
     [ch |-> ",", pat |-> <<"-", "-", ".", ".", "-", "-">>],
     [ch |-> "?", pat |-> <<".", ".", "-", "-", ".", ".">>],
     [ch |-> "'", pat |-> <<".", "-", "-", "-", "-", ".">>],
     [ch |-> "!", pat |-> <<"-", ".", "-", ".", "-", "-">>],
     [ch |-> "/", pat |-> <<"-", ".", ".", "-", ".">>],
     [ch |-> "(", pat |-> <<"-", ".", "-", "-", ".">>],
     [ch |-> ")", pat |-> <<"-", ".", "-", "-", ".", "-">>],
     [ch |-> "&", pat |-> <<".", "-", ".", ".", ".">>],
     [ch |-> ":", pat |-> <<"-", "-", "-", ".", ".", ".">>],
     [ch |-> ";", pat |-> <<"-", ".", "-", ".", "-", ".">>],
     [ch |-> "=", pat |-> <<"-", ".", ".", ".", "-">>],
     [ch |-> "+", pat |-> <<".", "-", ".", "-", ".">>],
     [ch |-> "-", pat |-> <<"-", ".", ".", ".", ".", "-">>],
     [ch |-> "_", pat |-> <<".", ".", "-", "-", ".", "-">>],
     [ch |-> "\"", pat |-> <<".", "-", ".", ".", "-", ".">>],
     [ch |-> "$", pat |-> <<".", ".", ".", "-", ".", ".", "-">>],
     [ch |-> "@", pat |-> <<".", "-", "-", ".", "-", ".">>] >>

\* A table in which E was mistyped with T's pattern.
MORSE_CODE_dup ==
  [MORSE_LETTERS EXCEPT ![5].pat = <<"-">>] \o MORSE_DIGITS \o MORSE_PUNCT

\* A table that stops after the first ten punctuation marks.
MORSE_CODE_short == MORSE_LETTERS \o MORSE_DIGITS \o SubSeq(MORSE_PUNCT, 1, 10)

MORSE_CODE == MORSE_LETTERS \o MORSE_DIGITS \o MORSE_PUNCT

\* char in MORSE_CODE
InMorseCode(c) == \E i \in DOMAIN MORSE_CODE : MORSE_CODE[i].ch = c

\* MORSE_CODE[char]: in a dict literal the last item of a key wins
MorseCodeOf(c) ==
  LET I == {i \in DOMAIN MORSE_CODE : MORSE_CODE[i].ch = c}
  IN  MORSE_CODE[CHOOSE i \in I : \A j \in I : j <= i].pat

\* char in MORSE_TO_TEXT, where MORSE_TO_TEXT = {v: k for k, v in MORSE_CODE.items()}
InMorseToText(p) == \E i \in DOMAIN MORSE_CODE : MORSE_CODE[i].pat = p

\* MORSE_TO_TEXT[char]: the comprehension keeps the last key of each pattern
MORSE_TO_TEXT(p) ==
  LET I == {i \in DOMAIN MORSE_CODE : MORSE_CODE[i].pat = p}
  IN  MORSE_CODE[CHOOSE i \in I : \A j \in I : j <= i].ch

(***************************************************************************)
(* The str methods the codec uses.                                         *)
(***************************************************************************)
LowerCase == <<"a", "b", "c", "d", "e", "f", "g", "h", "i", "j", "k", "l", "m", "n", "o", "p", "q", "r", "s", "t", "u", "v", "w", "x", "y", "z">>

UpperCase == MORSE_LETTERS

\* str.upper() on one character of the modelled character set
UpperChar(c) ==
  IF \E i \in DOMAIN LowerCase : LowerCase[i] = c
  THEN UpperCase[CHOOSE i \in DOMAIN LowerCase : LowerCase[i] = c].ch
  ELSE c

\* str.upper()
upper(s) == [i \in DOMAIN s |-> UpperChar(s[i])]

\* the characters str.split() and str.strip() treat as whitespace
IsSpace(c) == c \in {" ", "\t", "\n", "\r", "\f"}

RECURSIVE lstrip(_)
lstrip(s) == IF s # <<>> /\ IsSpace(Head(s)) THEN lstrip(Tail(s)) ELSE s

RECURSIVE rstrip(_)
rstrip(s) ==
  IF s # <<>> /\ IsSpace(s[Len(s)]) THEN rstrip(SubSeq(s, 1, Len(s) - 1)) ELSE s

\* str.strip()
strip(s) == rstrip(lstrip(s))

\* str.split(): the maximal runs of non-whitespace; cur is the run being read
RECURSIVE SplitWsLoop(_, _, _)
SplitWsLoop(s, cur, acc) ==
  IF s = <<>> THEN (IF cur = <<>> THEN acc ELSE Append(acc, cur))
  ELSE IF IsSpace(Head(s))
       THEN SplitWsLoop(Tail(s), <<>>, IF cur = <<>> THEN acc ELSE Append(acc, cur))
       ELSE SplitWsLoop(Tail(s), Append(cur, Head(s)), acc)

split(s) == SplitWsLoop(s, <<>>, <<>>)

\* s starts with sep
StartsWith(s, sep) == Len(s) >= Len(sep) /\ SubSeq(s, 1, Len(sep)) = sep

\* str.split(sep): left to right, non-overlapping, empty pieces kept
RECURSIVE SplitSepLoop(_, _, _, _)
SplitSepLoop(s, sep, cur, acc) ==
  IF s = <<>> THEN Append(acc, cur)
  ELSE IF StartsWith(s, sep)
       THEN SplitSepLoop(SubSeq(s, Len(sep) + 1, Len(s)), sep, <<>>, Append(acc, cur))
       ELSE SplitSepLoop(Tail(s), sep, Append(cur, Head(s)), acc)

split_sep(s, sep) == SplitSepLoop(s, sep, <<>>, <<>>)

\* sep.join(parts)
RECURSIVE join(_, _)
join(sep, parts) ==
  IF parts = <<>> THEN <<>>
  ELSE IF Len(parts) = 1 THEN parts[1]
  ELSE parts[1] \o sep \o join(sep, Tail(parts))

(***************************************************************************)
(* text_to_morse (lines 43-53)                                             *)
(***************************************************************************)
\* for char in word: if char in MORSE_CODE: morse_word.append(MORSE_CODE[char])
RECURSIVE EncodeWordLoop(_, _)
EncodeWordLoop(word, morse_word) ==
  IF word = <<>> THEN morse_word
  ELSE EncodeWordLoop(Tail(word),
         IF InMorseCode(Head(word))
         THEN Append(morse_word, MorseCodeOf(Head(word)))
         ELSE morse_word)

\* for word in ...: ...; if morse_word: result.append(' '.join(morse_word))
RECURSIVE EncodeLoop(_, _)
EncodeLoop(words, result) ==
  IF words = <<>> THEN result
  ELSE LET morse_word == EncodeWordLoop(Head(words), <<>>)
       IN  EncodeLoop(Tail(words),
             IF morse_word # <<>>
             THEN Append(result, join(<<" ">>, morse_word))
             ELSE result)

\* a variant that emits an empty group for a word with no mapped character
RECURSIVE EncodeLoop_keep_empty(_, _)
EncodeLoop_keep_empty(words, result) ==
  IF words = <<>> THEN result
  ELSE EncodeLoop_keep_empty(Tail(words),
         Append(result, join(<<" ">>, EncodeWordLoop(Head(words), <<>>))))

text_to_morse_keep_empty(text) ==
  join(<<" ", "/", " ">>, EncodeLoop_keep_empty(split(upper(text)), <<>>))

text_to_morse(text) == join(<<" ", "/", " ">>, EncodeLoop(split(upper(text)), <<>>))

(***************************************************************************)
(* morse_to_text (lines 55-70)                                             *)
(***************************************************************************)
\* for char in chars: char = char.strip(); table hit, else '?' when non-empty
RECURSIVE DecodeWordLoop(_, _)
DecodeWordLoop(chars, text_word) ==
  IF chars = <<>> THEN text_word
  ELSE LET char == strip(Head(chars))
       IN  DecodeWordLoop(Tail(chars),
             IF InMorseToText(char) THEN Append(text_word, MORSE_TO_TEXT(char))
             ELSE IF char # <<>> THEN Append(text_word, "?")
             ELSE text_word)

\* for word in words: ...; if text_word: result.append(''.join(text_word))
RECURSIVE DecodeLoop(_, _)
DecodeLoop(words, result) ==
  IF words = <<>> THEN result
  ELSE LET text_word == DecodeWordLoop(split(strip(Head(words))), <<>>)
       IN  DecodeLoop(Tail(words),
             IF text_word # <<>> THEN Append(result, text_word) ELSE result)

\* a variant that drops the tokens it does not know
RECURSIVE DecodeWordLoop_drop(_, _)
DecodeWordLoop_drop(chars, text_word) ==
  IF chars = <<>> THEN text_word
  ELSE LET char == strip(Head(chars))
       IN  DecodeWordLoop_drop(Tail(chars),
             IF InMorseToText(char) THEN Append(text_word, MORSE_TO_TEXT(char))
             ELSE text_word)

RECURSIVE DecodeLoop_drop(_, _)
DecodeLoop_drop(words, result) ==
  IF words = <<>> THEN result
  ELSE LET text_word == DecodeWordLoop_drop(split(strip(Head(words))), <<>>)
       IN  DecodeLoop_drop(Tail(words),
             IF text_word # <<>> THEN Append(result, text_word) ELSE result)

morse_to_text_drop(morse) ==
  join(<<" ">>, DecodeLoop_drop(split_sep(strip(morse), <<" ", "/", " ">>), <<>>))

morse_to_text(morse) ==
  join(<<" ">>, DecodeLoop(split_sep(strip(morse), <<" ", "/", " ">>), <<>>))

(***************************************************************************)
(* State                                                                   *)
(***************************************************************************)
VARIABLES
  c_in,             \* codec: the string handed to the codec
  c_op,             \* codec: "input", "encoded", "decoded" or "roundtrip"
  c_out,            \* codec: the string the last codec call returned
  phase,            \* "constructing" (before load_config), "running", "destroyed"
  HAS_SIMPLEAUDIO,  \* module flag, fixed at import
  HAS_WINSOUND,     \* module flag, fixed at import
  morse_frequency,  \* TextOverlayApp.morse_frequency
  morse_wpm,        \* TextOverlayApp.morse_wpm
  morse_generator,  \* TextOverlayApp.morse_generator
  is_playing,       \* TextOverlayApp.is_playing
  play_btn,         \* state of the Play button: "normal" or "disabled"
  morse_status,     \* text of the morse_status StringVar
  timers,           \* Tk's timer queue: the pending root.after callbacks
  threads,          \* the play_thread threads started so far, in start order
  temp_file,        \* ~/.temp_morse.wav: "absent", "partial" or "complete"
  n_calls,          \* history: play_morse_audio calls made
  n_rejected,       \* history: play_morse_audio calls that returned at line 489
  s_self,           \* synthesis: the MorseAudioGenerator the methods run on
  s_fp,             \* synthesis: the durations whose floating-point product
                    \* with sample_rate falls just short of its whole value
  s_morse_code,     \* synthesis: the morse_code argument
  s_duration,       \* synthesis: the duration argument of generate_tone
  s_samples,        \* synthesis: the samples list a call returned
  s_pc,             \* synthesis: "idle", "input", "returned", "segment" or
                    \* "tone"
  w_samples,        \* PCM: the samples argument of samples_to_wav_data
  w_audio_data,     \* PCM: the bytes samples_to_wav_data returned
  w_pc,             \* PCM: "idle", "input" or "packed"
  wav_file          \* the file at the export path: "absent", "old", "partial"
                    \* or "complete"

codecVars == <<c_in, c_op, c_out>>

appVars ==
  <<phase, HAS_SIMPLEAUDIO, HAS_WINSOUND, morse_frequency, morse_wpm,
    morse_generator, is_playing, play_btn, morse_status, timers, threads,
    temp_file, n_calls, n_rejected>>

synthVars ==
  <<s_self, s_fp, s_morse_code, s_duration, s_samples, s_pc, w_samples,
    w_audio_data, w_pc>>

audioVars == <<synthVars, wav_file>>

vars == <<codecVars, appVars, audioVars>>

(***************************************************************************)
(* MorseAudioGenerator.__init__ (lines 76-88)                              *)
(***************************************************************************)
Rat(n, d) == [n |-> n, d |-> d]

\* r * k, as the source multiplies dit_duration by 3 and 7
RatMul(r, k) == [n |-> r.n * k, d |-> r.d]

RatEq(a, b) == a.n * b.d = b.n * a.d

\* 1.2 / wpm raises ZeroDivisionError
GeneratorRaises(wpm) == wpm = 0

\* a generator whose dah is two dits long
MorseAudioGenerator_short_dah(frequency, wpm) ==
  LET dit_duration == Rat(12, 10 * wpm)
  IN  [frequency |-> frequency, wpm |-> wpm, sample_rate |-> 44100,
       dit_duration |-> dit_duration,
       dah_duration |-> RatMul(dit_duration, 2),
       element_space |-> dit_duration,
       letter_space |-> RatMul(dit_duration, 3),
       word_space |-> RatMul(dit_duration, 7)]

MorseAudioGenerator(frequency, wpm) ==
  LET dit_duration == Rat(12, 10 * wpm)
  IN  [frequency |-> frequency, wpm |-> wpm, sample_rate |-> 44100,
       dit_duration |-> dit_duration,
       dah_duration |-> RatMul(dit_duration, 3),
       element_space |-> dit_duration,
       letter_space |-> RatMul(dit_duration, 3),
       word_space |-> RatMul(dit_duration, 7)]

(***************************************************************************)
(* Tk's timer queue.  Entries are kept in due-time order; the entries      *)
(* whose time has come (due) form a prefix.  Every delayed callback of the *)
(* modelled handlers uses the same delay (2000 ms).                        *)
(***************************************************************************)
Timer(cb, th, due) == [cb |-> cb, th |-> th, due |-> due]

DueCount(ts) == Cardinality({i \in DOMAIN ts : ts[i].due})

\* root.after(0, cb): behind the timers already due, ahead of the others
AfterNow(ts, cb, th) ==
  LET k == DueCount(ts)
  IN  SubSeq(ts, 1, k) \o <<Timer(cb, th, TRUE)>> \o SubSeq(ts, k + 1, Len(ts))

\* root.after(2000, cb)
AfterDelay(ts, cb) == Append(ts, Timer(cb, 0, FALSE))

\* "Playing" in self.morse_status.get()
ContainsPlaying(status) == status = "Playing..."

(***************************************************************************)
(* Bounds                                                                  *)
(***************************************************************************)
MaxCalls == 2

MaxTimers == 1

\* a stored configuration: "exists" is whether the file is there and is JSON,
\* "has_*" whether the key is in it
Config(exists, has_frequency, frequency, has_wpm, wpm) ==
  [exists |-> exists, has_frequency |-> has_frequency, frequency |-> frequency,
   has_wpm |-> has_wpm, wpm |-> wpm]

\* the stored configurations and spinbox values tried beside a playback
ConfigFiles == {Config(FALSE, FALSE, 0, FALSE, 0), Config(TRUE, FALSE, 0, TRUE, 0)}

WpmInputs == {99}

FreqInputs == {100}

(***************************************************************************)
(* TextOverlayApp.__init__ up to line 222, then load_config (lines 247-262) *)
(***************************************************************************)
NewThread ==
  [pc |-> "start", outcome |-> "none", wrote |-> FALSE, remove_failed |-> FALSE,
   fin |-> 0]

\* a thread whose finish_playing has run: it has ended, and what was recorded
\* about its run is dropped
Finished(t) == [NewThread EXCEPT !.pc = "done", !.fin = t.fin + 1]

CodecIdle == c_in = <<>> /\ c_op = "idle" /\ c_out = <<>>

AppInit ==
  /\ phase = "constructing"
  /\ HAS_SIMPLEAUDIO \in BOOLEAN
  /\ HAS_WINSOUND \in BOOLEAN
  /\ morse_frequency = 700
  /\ morse_wpm = 20
  /\ morse_generator = MorseAudioGenerator(700, 20)
  /\ is_playing = FALSE
  /\ play_btn = "normal"
  /\ morse_status = ""
  /\ timers = <<>>
  /\ threads = <<>>
  /\ temp_file = "absent"
  /\ n_calls = 0
  /\ n_rejected = 0

\* no synthesis and no PCM conversion has been started
SynthIdle ==
  /\ s_self = MorseAudioGenerator(700, 20)
  /\ s_fp = {}
  /\ s_morse_code = <<>>
  /\ s_duration = Rat(0, 1)
  /\ s_samples = <<>>
  /\ s_pc = "idle"
  /\ w_samples = <<>>
  /\ w_audio_data = <<>>
  /\ w_pc = "idle"

\* and nothing has been exported
AudioIdle == SynthIdle /\ wav_file = "absent"

Init == CodecIdle /\ AppInit /\ AudioIdle

\* the assignments run in order; when the constructor raises, the bare
\* except keeps the values assigned so far
load_config(config) ==
  /\ phase = "constructing"
  /\ phase' = "running"
  /\ IF ~config.exists
     THEN UNCHANGED <<morse_frequency, morse_wpm, morse_generator>>
     ELSE LET f == IF config.has_frequency THEN config.frequency ELSE morse_frequency
              w == IF config.has_wpm THEN config.wpm ELSE morse_wpm
          IN  /\ morse_frequency' = f
              /\ morse_wpm' = w
              /\ morse_generator' =
                   IF GeneratorRaises(w) THEN morse_generator
                   ELSE MorseAudioGenerator(f, w)
  /\ UNCHANGED <<codecVars, audioVars,
                 HAS_SIMPLEAUDIO, HAS_WINSOUND, is_playing, play_btn,
                 morse_status, timers, threads, temp_file, n_calls, n_rejected>>

Max(a, b) == IF a >= b THEN a ELSE b

Min(a, b) == IF a <= b THEN a ELSE b

\* on_freq_change (lines 455-463); valid is whether int(freq_var.get()) succeeds
on_freq_change(valid, v) ==
  /\ phase = "running"
  /\ IF ~valid
     THEN UNCHANGED <<morse_frequency, morse_generator>>
     ELSE LET f == Max(300, Min(1200, v))
          IN  /\ morse_frequency' = f
              /\ morse_generator' =
                   IF GeneratorRaises(morse_wpm) THEN morse_generator
                   ELSE MorseAudioGenerator(f, morse_wpm)
  /\ UNCHANGED <<codecVars, audioVars,
                 phase, HAS_SIMPLEAUDIO, HAS_WINSOUND, morse_wpm,
                 is_playing, play_btn, morse_status, timers, threads, temp_file,
                 n_calls, n_rejected>>

\* on_wpm_change (lines 465-473); valid is whether int(wpm_var.get()) succeeds
on_wpm_change(valid, v) ==
  /\ phase = "running"
  /\ IF ~valid
     THEN UNCHANGED <<morse_wpm, morse_generator>>
     ELSE LET w == Max(5, Min(40, v))
          IN  /\ morse_wpm' = w
              /\ morse_generator' =
                   IF GeneratorRaises(w) THEN morse_generator
                   ELSE MorseAudioGenerator(morse_frequency, w)
  /\ UNCHANGED <<codecVars, audioVars,
                 phase, HAS_SIMPLEAUDIO, HAS_WINSOUND, morse_frequency,
                 is_playing, play_btn, morse_status, timers, threads, temp_file,
                 n_calls, n_rejected>>

\* copy_text_to_morse (lines 475-484), as far as it touches the status line
copy_text_to_morse(has_text) ==
  /\ phase = "running"
  /\ Len(timers) < MaxTimers
  /\ IF has_text
     THEN /\ morse_status' = "Copied and converted to Morse"
          /\ timers' = AfterDelay(timers, "clear_status")
     ELSE UNCHANGED <<morse_status, timers>>
  /\ UNCHANGED <<codecVars, audioVars,
                 phase, HAS_SIMPLEAUDIO, HAS_WINSOUND, morse_frequency,
                 morse_wpm, morse_generator, is_playing, play_btn, threads,
                 temp_file, n_calls, n_rejected>>

\* on_close (lines 281-284): save_config, then root.destroy() ends the main
\* loop and with it every pending callback
on_close ==
  /\ phase = "running"
  /\ phase' = "destroyed"
  /\ timers' = <<>>
  /\ UNCHANGED <<codecVars, audioVars,
                 HAS_SIMPLEAUDIO, HAS_WINSOUND, morse_frequency,
                 morse_wpm, morse_generator, is_playing, play_btn, morse_status,
                 threads, temp_file, n_calls, n_rejected>>

(***************************************************************************)
(* play_morse_audio (lines 486-514).  The call is the dispatcher's public  *)
(* start operation; entry_empty is whether the Morse entry is blank.       *)
(***************************************************************************)
\* a variant without the is_playing gate of lines 488-489
play_morse_audio_no_gate(entry_empty) ==
  /\ phase = "running"
  /\ n_calls < MaxCalls
  /\ n_calls' = n_calls + 1
  /\ IF entry_empty
     THEN /\ morse_status' = "No Morse code to play"
          /\ timers' = AfterDelay(timers, "clear_status")
          /\ UNCHANGED <<is_playing, play_btn, threads, n_rejected>>
     ELSE /\ is_playing' = TRUE
          /\ play_btn' = "disabled"
          /\ morse_status' = "Playing..."
          /\ threads' = Append(threads, NewThread)
          /\ UNCHANGED <<timers, n_rejected>>
  /\ UNCHANGED <<codecVars, audioVars,
                 phase, HAS_SIMPLEAUDIO, HAS_WINSOUND, morse_frequency,
                 morse_wpm, morse_generator, temp_file>>

play_morse_audio(entry_empty) ==
  /\ phase = "running"
  /\ n_calls < MaxCalls
  /\ n_calls' = n_calls + 1
  /\ IF is_playing
     THEN /\ n_rejected' = n_rejected + 1
          /\ UNCHANGED <<is_playing, play_btn, morse_status, timers, threads>>
     ELSE IF entry_empty
     THEN /\ morse_status' = "No Morse code to play"
          /\ timers' = AfterDelay(timers, "clear_status")
          /\ UNCHANGED <<is_playing, play_btn, threads, n_rejected>>
     ELSE /\ is_playing' = TRUE
          /\ play_btn' = "disabled"
          /\ morse_status' = "Playing..."
          /\ threads' = Append(threads, NewThread)
          /\ UNCHANGED <<timers, n_rejected>>
  /\ UNCHANGED <<codecVars, audioVars,
                 phase, HAS_SIMPLEAUDIO, HAS_WINSOUND, morse_frequency,
                 morse_wpm, morse_generator, temp_file>>

(***************************************************************************)
(* The background thread: play_thread (lines 501-511) calling play_morse   *)
(* (lines 172-195).  A thread's pc:                                        *)
(*   "start"      about to call play_morse                                 *)
(*   "ws_play"    temp file saved, about to call winsound.PlaySound        *)
(*   "ws_remove"  PlaySound returned, about to os.remove the temp file     *)
(*   "post_saved" play_morse returned the temp file's path                 *)
(*   "except"     an exception was caught, e is bound                      *)
(*   "unbind_e"   the error callback is scheduled, e is still bound        *)
(*   "finally"    about to schedule finish_playing                         *)
(*   "done"       the thread ended; "died": an exception escaped it        *)
(***************************************************************************)
InPlayMorse == {"start", "ws_play", "ws_remove"}

SetThread(th, pc, outcome) ==
  threads' = [threads EXCEPT ![th].pc = pc, ![th].outcome = outcome]

threadFrame ==
  UNCHANGED <<codecVars, audioVars,
              phase, HAS_SIMPLEAUDIO, HAS_WINSOUND, morse_frequency,
              morse_wpm, morse_generator, is_playing, play_btn, morse_status,
              n_calls, n_rejected>>

\* save_wav (lines 161-170) on the temp file: it is written whole, or
\* wave.open fails and leaves the path as it was, or a write fails part-way
SaveWavResults == {"ok", "open_fails", "write_fails"}

TempFileAfterSave(r) ==
  IF r = "ok" THEN "complete" ELSE IF r = "write_fails" THEN "partial" ELSE temp_file

\* play_morse up to its first blocking call or return (lines 174-184, 191-195)
play_morse(th) ==
  /\ threads[th].pc = "start"
  /\ IF HAS_SIMPLEAUDIO
     THEN \E ok \in BOOLEAN :
            /\ IF ok THEN SetThread(th, "finally", "played")
                     ELSE SetThread(th, "except", "error")
            /\ UNCHANGED <<temp_file, timers>>
     ELSE \E r \in SaveWavResults :
            /\ temp_file' = TempFileAfterSave(r)
            /\ IF r # "ok" THEN SetThread(th, "except", "error")
               ELSE IF HAS_WINSOUND
               THEN threads' = [threads EXCEPT ![th].pc = "ws_play", ![th].wrote = TRUE]
               ELSE SetThread(th, "post_saved", "saved")
            /\ UNCHANGED timers
  /\ threadFrame

\* winsound.PlaySound(temp_file, SND_FILENAME) (line 185)
PlaySound(th) ==
  /\ threads[th].pc = "ws_play"
  /\ \E ok \in BOOLEAN :
       IF ok THEN SetThread(th, "ws_remove", "none")
             ELSE SetThread(th, "except", "error")
  /\ UNCHANGED <<temp_file, timers>>
  /\ threadFrame

\* try: os.remove(temp_file) except: pass; return None (lines 186-189, 195)
remove_temp_file(th) ==
  /\ threads[th].pc = "ws_remove"
  /\ \E ok \in BOOLEAN :
       /\ temp_file' = IF ok THEN "absent" ELSE temp_file
       /\ threads' = [threads EXCEPT ![th].pc = "finally", ![th].outcome = "played",
                                     ![th].remove_failed = ~ok]
  /\ UNCHANGED timers
  /\ threadFrame

\* if result: self.root.after(0, <set "Audio saved to ...">) (lines 505-507);
\* root.after raises once the window is destroyed
schedule_saved(th) ==
  /\ threads[th].pc = "post_saved"
  /\ IF phase = "running"
     THEN /\ timers' = AfterNow(timers, "set_saved", th)
          /\ SetThread(th, "finally", "saved")
     ELSE /\ SetThread(th, "except", "saved")
          /\ UNCHANGED timers
  /\ UNCHANGED temp_file
  /\ threadFrame

\* except Exception as e: self.root.after(0, <set "Error: ...">) (lines 508-509);
\* when root.after raises here, the finally clause's root.after raises too
schedule_error(th) ==
  /\ threads[th].pc = "except"
  /\ IF phase = "running"
     THEN /\ timers' = AfterNow(timers, "set_error", th)
          /\ SetThread(th, "unbind_e", threads[th].outcome)
     ELSE /\ SetThread(th, "died", threads[th].outcome)
          /\ UNCHANGED timers
  /\ UNCHANGED temp_file
  /\ threadFrame

\* the end of the except clause: Python unbinds e
unbind_e(th) ==
  /\ threads[th].pc = "unbind_e"
  /\ SetThread(th, "finally", threads[th].outcome)
  /\ UNCHANGED <<temp_file, timers>>
  /\ threadFrame

\* a thread that ends without scheduling finish_playing
schedule_finish_forgotten(th) ==
  /\ threads[th].pc = "finally"
  /\ SetThread(th, "done", threads[th].outcome)
  /\ UNCHANGED <<temp_file, timers>>
  /\ threadFrame

\* finally: self.root.after(0, self.finish_playing) (lines 510-511)
schedule_finish(th) ==
  /\ threads[th].pc = "finally"
  /\ IF phase = "running"
     THEN /\ timers' = AfterNow(timers, "finish_playing", th)
          /\ SetThread(th, "done", threads[th].outcome)
     ELSE /\ SetThread(th, "died", threads[th].outcome)
          /\ UNCHANGED timers
  /\ UNCHANGED temp_file
  /\ threadFrame

play_thread ==
  \E th \in DOMAIN threads :
    \/ play_morse(th)
    \/ PlaySound(th)
    \/ remove_temp_file(th)
    \/ schedule_saved(th)
    \/ schedule_error(th)
    \/ unbind_e(th)
    \/ schedule_finish(th)

(***************************************************************************)
(* The main loop running the timer callbacks.                              *)
(***************************************************************************)
HeadIs(cb) == phase = "running" /\ timers # <<>> /\ Head(timers).due /\ Head(timers).cb = cb

loopFrame ==
  UNCHANGED <<codecVars, audioVars,
              phase, HAS_SIMPLEAUDIO, HAS_WINSOUND, morse_frequency,
              morse_wpm, morse_generator, temp_file, n_calls, n_rejected>>

\* time passes: the earliest timer not yet due becomes due
Tick ==
  /\ phase = "running"
  /\ \E i \in DOMAIN timers :
       /\ ~timers[i].due
       /\ \A j \in 1..(i - 1) : timers[j].due
       /\ timers' = [timers EXCEPT ![i].due = TRUE]
  /\ UNCHANGED <<is_playing, play_btn, morse_status, threads>>
  /\ loopFrame

\* lambda: self.morse_status.set("") (lines 484, 494, 522)
clear_status ==
  /\ HeadIs("clear_status")
  /\ timers' = Tail(timers)
  /\ morse_status' = ""
  /\ UNCHANGED <<is_playing, play_btn, threads>>
  /\ loopFrame

\* lambda: self.morse_status.set(f"Audio saved to {result}") (line 507)
set_saved ==
  /\ HeadIs("set_saved")
  /\ timers' = Tail(timers)
  /\ morse_status' = "Audio saved to"
  /\ UNCHANGED <<is_playing, play_btn, threads>>
  /\ loopFrame

\* lambda: self.morse_status.set(f"Error: {str(e)[:30]}") (line 509): e is a
\* variable of play_thread; once the except clause has ended it is unbound,
\* the lambda raises NameError and Tk reports it, the status untouched
set_error ==
  /\ HeadIs("set_error")
  /\ timers' = Tail(timers)
  /\ morse_status' =
       IF threads[Head(timers).th].pc = "unbind_e" THEN "Error" ELSE morse_status
  /\ UNCHANGED <<is_playing, play_btn, threads>>
  /\ loopFrame

\* a variant that announces "Done" and leaves is_playing set
finish_playing_keeps_flag ==
  /\ HeadIs("finish_playing")
  /\ UNCHANGED is_playing
  /\ play_btn' = "normal"
  /\ threads' = [threads EXCEPT ![Head(timers).th] = Finished(@)]
  /\ IF ContainsPlaying(morse_status)
     THEN /\ morse_status' = "Done"
          /\ timers' = AfterDelay(Tail(timers), "clear_status")
     ELSE /\ UNCHANGED morse_status
          /\ timers' = Tail(timers)
  /\ loopFrame

\* finish_playing (lines 516-522)
finish_playing ==
  /\ HeadIs("finish_playing")
  /\ is_playing' = FALSE
  /\ play_btn' = "normal"
  /\ threads' = [threads EXCEPT ![Head(timers).th] = Finished(@)]
  /\ IF ContainsPlaying(morse_status)
     THEN /\ morse_status' = "Done"
          /\ timers' = AfterDelay(Tail(timers), "clear_status")
     ELSE /\ UNCHANGED morse_status
          /\ timers' = Tail(timers)
  /\ loopFrame

mainloop == clear_status \/ set_saved \/ set_error \/ finish_playing

(***************************************************************************)
(* The application                                                         *)
(***************************************************************************)
Next ==
  \/ \E config \in ConfigFiles : load_config(config)
  \/ \E valid \in BOOLEAN, v \in FreqInputs : on_freq_change(valid, v)
  \/ \E valid \in BOOLEAN, v \in WpmInputs : on_wpm_change(valid, v)
  \/ \E has_text \in BOOLEAN : copy_text_to_morse(has_text)
  \/ \E entry_empty \in BOOLEAN : play_morse_audio(entry_empty)
  \/ play_thread
  \/ Tick
  \/ mainloop
  \/ on_close

Spec == Init /\ [][Next]_vars

\* the scheduler runs a runnable thread, and the main loop runs a due callback
FairSpec == Spec /\ WF_vars(play_thread) /\ WF_vars(mainloop)

(***************************************************************************)
(* The codec as the UI drives it: convert_to_morse and convert_from_morse  *)
(* apply text_to_morse and morse_to_text to the text area's content.       *)
(***************************************************************************)
MaxLen == 4

\* supported characters in both cases, an unsupported one, whitespace, and
\* the characters of a Morse string
Alphabet == {"e", "T", "#", " ", "\t", ".", "-", "/"}

RECURSIVE StringsUpTo(_)
StringsUpTo(n) ==
  IF n = 0 THEN {<<>>}
  ELSE LET S == StringsUpTo(n - 1)
       IN  S \cup {Append(s, c) : s \in {x \in S : Len(x) = n - 1}, c \in Alphabet}

\* every one-character string of the code table, in both cases
SingleChars ==
  {<<MORSE_CODE[i].ch>> : i \in DOMAIN MORSE_CODE}
    \cup {<<LowerCase[i]>> : i \in DOMAIN LowerCase}

CodecInputs == StringsUpTo(MaxLen) \cup SingleChars

CodecInit ==
  /\ c_in \in CodecInputs
  /\ c_op = "input"
  /\ c_out = <<>>
  /\ AppInit
  /\ HAS_SIMPLEAUDIO /\ HAS_WINSOUND
  /\ AudioIdle

convert_to_morse ==
  /\ c_op = "input"
  /\ c_out' = text_to_morse(c_in)
  /\ c_op' = "encoded"
  /\ UNCHANGED <<c_in, appVars, audioVars>>

convert_from_morse ==
  /\ c_op = "input"
  /\ c_out' = morse_to_text(c_in)
  /\ c_op' = "decoded"
  /\ UNCHANGED <<c_in, appVars, audioVars>>

convert_back ==
  /\ c_op = "encoded"
  /\ c_out' = morse_to_text(c_out)
  /\ c_op' = "roundtrip"
  /\ UNCHANGED <<c_in, appVars, audioVars>>

CodecNext == convert_to_morse \/ convert_from_morse \/ convert_back

CodecSpec == CodecInit /\ [][CodecNext]_vars

(***************************************************************************)
(* Reference encodings, written from the statements they are compared to.  *)
(***************************************************************************)
\* positions of s where a maximal run of non-whitespace starts / ends
RunStarts(s) ==
  {i \in DOMAIN s : ~IsSpace(s[i]) /\ (i = 1 \/ IsSpace(s[i - 1]))}

RunEnd(s, i) ==
  CHOOSE j \in i..Len(s) :
    /\ \A k \in i..j : ~IsSpace(s[k])
    /\ (j = Len(s) \/ IsSpace(s[j + 1]))

\* the set S of numbers as an ascending sequence
RECURSIVE Ascending(_)
Ascending(S) ==
  IF S = {} THEN <<>>
  ELSE LET m == CHOOSE x \in S : \A y \in S : x <= y
       IN  <<m>> \o Ascending(S \ {m})

\* the whitespace-separated words of s
WordsOf(s) ==
  LET starts == Ascending(RunStarts(s))
  IN  [k \in DOMAIN starts |-> SubSeq(s, starts[k], RunEnd(s, starts[k]))]

\* the concatenation of parts with sep between neighbours
RECURSIVE Interleave(_, _)
Interleave(parts, sep) ==
  IF Len(parts) = 0 THEN <<>>
  ELSE IF Len(parts) = 1 THEN parts[1]
  ELSE Interleave(SubSeq(parts, 1, Len(parts) - 1), sep) \o sep \o parts[Len(parts)]

IsSupported(c) == \E i \in DOMAIN MORSE_CODE : MORSE_CODE[i].ch = c

PatternOf(c) == MORSE_CODE[CHOOSE i \in DOMAIN MORSE_CODE : MORSE_CODE[i].ch = c].pat

NonEmpty(w) == w # <<>>

\* one word: absent characters dropped, patterns joined by one space
RefEncodeWord(w) ==
  LET kept == SelectSeq(w, IsSupported)
  IN  Interleave([k \in DOMAIN kept |-> PatternOf(kept[k])], <<" ">>)

RefEncode(text) ==
  LET ws == WordsOf(upper(text))
      groups == SelectSeq([k \in DOMAIN ws |-> RefEncodeWord(ws[k])], NonEmpty)
  IN  Interleave(groups, <<" ", "/", " ">>)

\* C7: text_to_morse(text) is the reference encoding: uppercase, split on
\* whitespace, absent characters dropped, patterns of a word joined by one
\* space, words with no mapped character omitted, words joined by " / ",
\* and the empty string when nothing is encodable.
C7_EncodeIsReference ==
  c_op = "encoded" =>
    /\ c_out = RefEncode(c_in)
    /\ ((\A i \in DOMAIN c_in : ~IsSupported(UpperChar(c_in[i]))) => c_out = <<>>)

\* an input with a word of unsupported characters between two encodable words
C7_Witness ==
  /\ c_op = "encoded"
  /\ c_in = <<"e", " ", "#", " ">>
  /\ c_out = <<".">>

\* the index of the first occurrence of sep in s, or 0
FirstOccurrence(s, sep) ==
  LET hits == {i \in 1..(Len(s) - Len(sep) + 1) : SubSeq(s, i, i + Len(sep) - 1) = sep}
  IN  IF hits = {} THEN 0 ELSE CHOOSE i \in hits : \A j \in hits : i <= j

\* the pieces of s between the literal occurrences of sep
RECURSIVE PiecesOf(_, _)
PiecesOf(s, sep) ==
  LET i == FirstOccurrence(s, sep)
  IN  IF i = 0 THEN <<s>>
      ELSE <<SubSeq(s, 1, i - 1)>> \o PiecesOf(SubSeq(s, i + Len(sep), Len(s)), sep)

IsPattern(tok) == \E i \in DOMAIN MORSE_CODE : MORSE_CODE[i].pat = tok

CharOf(tok) == MORSE_CODE[CHOOSE i \in DOMAIN MORSE_CODE : MORSE_CODE[i].pat = tok].ch

\* one word: each token its character, or "?" when it is no pattern
RefDecodeWord(w) ==
  LET toks == WordsOf(w)
  IN  [k \in DOMAIN toks |-> IF IsPattern(toks[k]) THEN CharOf(toks[k]) ELSE "?"]

\* the statement as written: the input itself is split on " / ", and the
\* words are joined by a single space
RefDecodeAsWritten(morse) ==
  LET ws == PiecesOf(morse, <<" ", "/", " ">>)
  IN  Interleave([k \in DOMAIN ws |-> RefDecodeWord(ws[k])], <<" ">>)

\* the input is stripped first, and a word with no token is omitted
RefDecode(morse) ==
  LET ws == PiecesOf(strip(morse), <<" ", "/", " ">>)
      decoded == SelectSeq([k \in DOMAIN ws |-> RefDecodeWord(ws[k])], NonEmpty)
  IN  Interleave(decoded, <<" ">>)

\* s is one token: non-empty, no whitespace in it
IsSingleToken(s) == s # <<>> /\ \A i \in DOMAIN s : ~IsSpace(s[i])

RemoveAbsent(s) ==
  LET Keep(c) == IsSpace(c) \/ IsSupported(c)
  IN  SelectSeq(s, Keep)

\* every run of whitespace replaced by one space
RECURSIVE Collapse(_)
Collapse(s) ==
  IF s = <<>> THEN <<>>
  ELSE IF IsSpace(Head(s))
       THEN IF Len(s) > 1 /\ IsSpace(s[2]) THEN Collapse(Tail(s))
            ELSE <<" ">> \o Collapse(Tail(s))
       ELSE <<Head(s)>> \o Collapse(Tail(s))

\* no two characters of the code table share a pattern
TableInjective ==
  \A i, j \in DOMAIN MORSE_CODE : MORSE_CODE[i].pat = MORSE_CODE[j].pat => i = j

\* C9 as stated: the round trip yields s uppercased, with the characters
\* absent from the code table removed and whitespace runs collapsed to single
\* spaces.
C9_RoundTripAsWritten ==
  c_op = "roundtrip" => c_out = Collapse(RemoveAbsent(upper(c_in)))

\* C9 amended: the round trip yields s uppercased, with the characters absent
\* from the code table removed, whitespace runs collapsed to single spaces
\* and leading and trailing whitespace removed; a single supported character
\* comes back as its uppercase, and no two table characters share a pattern.
C9_RoundTrip ==
  /\ TableInjective
  /\ c_op = "roundtrip" =>
       /\ c_out = strip(Collapse(RemoveAbsent(upper(c_in))))
       /\ (Len(c_in) = 1 /\ IsSupported(UpperChar(c_in[1])) => c_out = <<UpperChar(c_in[1])>>)

\* a lowercase letter, an unsupported character and a whitespace run
C9_Witness ==
  /\ c_op = "roundtrip"
  /\ c_in = <<"e", "#", "\t", " ">>
  /\ c_out = <<"E">>

(***************************************************************************)
(* The settings handlers alone, over every stored and entered value up to  *)
(* MaxWpmInput.                                                            *)
(***************************************************************************)
MaxWpmInput == 45

SettingsConfigFiles ==
  {Config(FALSE, FALSE, 0, FALSE, 0)}
    \cup {Config(TRUE, hf, f, hw, w) :
            hf \in BOOLEAN, f \in {250, 800}, hw \in BOOLEAN, w \in -2..MaxWpmInput}

SettingsNext ==
  \/ \E config \in SettingsConfigFiles : load_config(config)
  \/ \E valid \in BOOLEAN, v \in {100, 800, 2000} : on_freq_change(valid, v)
  \/ \E valid \in BOOLEAN, v \in 0..MaxWpmInput : on_wpm_change(valid, v)

SettingsSpec == Init /\ [][SettingsNext]_vars

(***************************************************************************)
(* Playback dispatcher                                                     *)
(***************************************************************************)
\* the playbacks started whose finish_playing has not run
InFlight == {th \in DOMAIN threads : threads[th].fin = 0}

FinishedOnce == \A th \in DOMAIN threads : threads[th].fin <= 1

\* C1: at most one playback is in flight at any time, and is_playing is true
\* exactly while a started play_thread has not had its finish_playing run.
C1_AtMostOnePlayback ==
  /\ Cardinality(InFlight) <= 1
  /\ is_playing <=> InFlight # {}

\* a second playback is in flight after the first has completed
C1_Witness ==
  /\ Len(threads) = 2
  /\ threads[1].fin = 1
  /\ InFlight = {2}
  /\ is_playing

StatusChangesTo(S) == morse_status' \in S /\ morse_status' # morse_status

\* C3 as stated: every notification of the outcome ("Done", the saved path,
\* the error message) is delivered with the session already back to Idle.
C3_IdleBeforeAnyNotification ==
  [][StatusChangesTo({"Done", "Audio saved to", "Error"}) => ~is_playing']_vars

\* C3 amended: finish_playing runs at most once per started playback, and
\* once if the window is not closed first; it runs only after the thread has
\* left play_morse and ended; it sets is_playing false before it sets "Done".
\* The saved-path and error messages are delivered by callbacks of their own
\* that run before finish_playing, while is_playing is still true.
C3_CompletionOrdering ==
  /\ []FinishedOnce
  /\ [][\A th \in DOMAIN threads :
          threads'[th].fin # threads[th].fin =>
            threads[th].pc = "done" /\ ~is_playing']_vars
  /\ [][StatusChangesTo({"Done"}) => ~is_playing']_vars
  /\ [][StatusChangesTo({"Audio saved to", "Error"}) => is_playing /\ is_playing']_vars
  /\ \A n \in 1..(MaxCalls + 1) :
       [](Len(threads) >= n =>
            <>(phase = "destroyed" \/ (Len(threads) >= n /\ threads[n].fin = 1)))

\* the saved path was shown and the playback then completed
C3_Witness ==
  /\ Len(threads) = 1
  /\ threads[1].fin = 1
  /\ morse_status = "Audio saved to"
  /\ ~is_playing

FinishPending == \E i \in DOMAIN timers : timers[i].cb = "finish_playing"

\* C4 as stated, for a finite run: once every thread has ended and no
\* finish_playing is pending, is_playing is not left true, close or no close.
C4_NeverLeftTrue ==
  ((\A th \in DOMAIN threads : threads[th].pc \in {"done", "died"}) /\ ~FinishPending)
    => ~is_playing

\* C4 amended: once a playback has started, is_playing is reset to false by
\* exactly one finish_playing on every exit path of play_morse, whatever
\* settings changes are interleaved, provided the window is not closed before
\* finish_playing runs (and threads and main loop are scheduled fairly).
C4_ReturnsToIdle ==
  /\ []FinishedOnce
  /\ [][(is_playing /\ ~is_playing') =>
          Cardinality({th \in DOMAIN threads : threads'[th].fin = threads[th].fin + 1}) = 1]_vars
  /\ (is_playing ~> (~is_playing \/ phase = "destroyed"))

\* a playback whose play_morse raised has returned to Idle
C4_Witness ==
  /\ Len(threads) = 1
  /\ threads[1].fin = 1
  /\ morse_status = "Error"
  /\ ~is_playing

\* C5: when finish_playing has run for a playback whose play_morse raised,
\* the status is the error message, not the success status "Done".
C5_ErrorNotDone ==
  [][\A th \in DOMAIN threads :
       (threads[th].outcome = "error" /\ threads'[th].fin = threads[th].fin + 1)
         => morse_status' # "Done"]_vars

\* C6: a thread that wrote the temp file for winsound leaves play_morse with
\* the file removed, or with the removal having failed.
C6_TempFileRemoved ==
  [][\A th \in DOMAIN threads :
       (threads[th].pc \in InPlayMorse /\ threads'[th].pc \notin InPlayMorse
          /\ threads'[th].wrote)
         => (temp_file' = "absent" \/ threads'[th].remove_failed)]_vars

(***************************************************************************)
(* Timing model                                                            *)
(***************************************************************************)
TimingOf(g) ==
  /\ RatEq(g.dit_duration, Rat(12, 10 * g.wpm))
  /\ RatEq(g.dah_duration, RatMul(g.dit_duration, 3))
  /\ RatEq(g.element_space, g.dit_duration)
  /\ RatEq(g.letter_space, RatMul(g.dit_duration, 3))
  /\ RatEq(g.word_space, RatMul(g.dit_duration, 7))

\* C10: a generator built with wpm > 0 has dit = 1.2 / wpm, dah = 3 dit,
\* element gap = dit, letter gap = 3 dit, word gap = 7 dit; at wpm = 20 these
\* are 0.06 s, 0.18 s and 0.42 s; the app's generator changes only by being
\* replaced with a newly constructed one.
C10_TimingConstants ==
  /\ [](morse_generator.wpm > 0 => TimingOf(morse_generator))
  /\ [](morse_generator.wpm = 20 =>
          /\ RatEq(morse_generator.dit_duration, Rat(6, 100))
          /\ RatEq(morse_generator.dah_duration, Rat(18, 100))
          /\ RatEq(morse_generator.word_space, Rat(42, 100)))
  /\ [][morse_generator' # morse_generator =>
          /\ ~GeneratorRaises(morse_wpm')
          /\ morse_generator' = MorseAudioGenerator(morse_frequency', morse_wpm')]_vars

\* on_wpm_change has built a generator for 40 wpm: dit = 0.03 s, dah = 0.09 s
C10_Witness ==
  /\ phase = "running"
  /\ morse_generator.wpm = 40
  /\ RatEq(morse_generator.dit_duration, Rat(3, 100))
  /\ RatEq(morse_generator.dah_duration, Rat(9, 100))

(***************************************************************************)
(* Settings and the generator's wpm                                        *)
(***************************************************************************)
RatPositive(r) == r.n * r.d > 0

\* C11: constructing the timing model fails for every wpm <= 0, so no
\* generator with a non-positive wpm or a non-positive dit duration exists.
C11_NoNonPositiveGenerator ==
  /\ morse_generator.wpm > 0
  /\ RatPositive(morse_generator.dit_duration)

\* C15: after any sequence of load_config, on_wpm_change and on_freq_change
\* the generator held by the app has a wpm within 5..40.
C15_GeneratorWpmClamped == morse_generator.wpm \in 5..40

(***************************************************************************)
(* Size of the code table                                                  *)
(***************************************************************************)
KeysOf(table) == {table[i].ch : i \in DOMAIN table}

TableKeys == KeysOf(MORSE_CODE)

\* the keys of the table that are of one of the three groups of the literal
LetterKeys == TableKeys \cap KeysOf(MORSE_LETTERS)

DigitKeys == TableKeys \cap KeysOf(MORSE_DIGITS)

PunctuationKeys == TableKeys \ (LetterKeys \cup DigitKeys)

\* C14 (as written): the code table a text is encoded with has exactly 46
\* entries.
C14_TableHas46Entries == c_op = "encoded" => Cardinality(TableKeys) = 46

\* C14: the code table has exactly 54 entries, 26 letters, 10 digits and 18
\* punctuation marks, under distinct keys; no operation changes it: every
\* encoding is computed from that one table.
C14_TableEntries ==
  /\ Len(MORSE_CODE) = 54
  /\ Cardinality(TableKeys) = 54
  /\ Cardinality(LetterKeys) = 26
  /\ Cardinality(DigitKeys) = 10
  /\ Cardinality(PunctuationKeys) = 18
  /\ c_op = "encoded" /\ Len(c_in) = 1 /\ c_out # <<>> =>
        \E i \in DOMAIN MORSE_CODE :
          MORSE_CODE[i].ch = UpperChar(c_in[1]) /\ MORSE_CODE[i].pat = c_out

\* the solidus, one of the eighteen punctuation marks, has been encoded
C14_Witness ==
  /\ c_op = "encoded"
  /\ c_in = <<"/">>
  /\ c_out = <<"-", ".", ".", "-", ".">>
  /\ "/" \in PunctuationKeys

(***************************************************************************)
(* Waveform synthesis (lines 90-145).  A samples list is kept as the       *)
(* sequence of the segments it is the concatenation of: a segment is the   *)
(* list one generate_tone or generate_silence call returned, recorded by   *)
(* its kind, the duration it was asked for and its number of samples.      *)
(***************************************************************************)

\* the exact value of sample_rate * duration, over a positive denominator
Product(sample_rate, duration) ==
  IF duration.d > 0 THEN Rat(sample_rate * duration.n, duration.d)
  ELSE Rat(-(sample_rate * duration.n), -duration.d)

IsWhole(x) == x.n % x.d = 0

\* int(x): truncation toward zero
int(x) == IF x.n >= 0 THEN x.n \div x.d ELSE -((-x.n) \div x.d)

\* round(x): to the nearest whole number, halves to the even one
round(x) ==
  LET floor == IF x.n >= 0 THEN x.n \div x.d ELSE -((-x.n + x.d - 1) \div x.d)
      twice == 2 * (x.n - floor * x.d)
  IN  IF twice < x.d THEN floor
      ELSE IF twice > x.d THEN floor + 1
      ELSE IF floor % 2 = 0 THEN floor ELSE floor + 1

\* a sample count that rounds where the source truncates
num_samples_rounded(self, duration) ==
  round(Product(self.sample_rate, duration))

\* num_samples = int(self.sample_rate * duration) (lines 92 and 110).  The
\* product is a float: where its exact value is a whole number the float can
\* lie just short of it, and int() then gives the whole number before it.
num_samples(self, duration) ==
  LET x == Product(self.sample_rate, duration)
  IN  IF IsWhole(x) /\ x.n # 0 /\ duration \in s_fp
      THEN IF x.n > 0 THEN int(x) - 1 ELSE int(x) + 1
      ELSE int(x)

\* generate_tone (lines 90-106): range(num_samples) is empty for a count
\* below 1
generate_tone(self, duration) ==
  [kind |-> "tone", duration |-> duration,
   len |-> Max(0, num_samples(self, duration))]

\* generate_silence (lines 108-111): [0.0] * num_samples is empty for a count
\* below 1
generate_silence(self, duration) ==
  [kind |-> "silence", duration |-> duration,
   len |-> Max(0, num_samples(self, duration))]

\* morse_code[i + 1] in '.-', with i counted from 1
NextIsElement(morse_code, i) ==
  i + 1 <= Len(morse_code) /\ morse_code[i + 1] \in {".", "-"}

\* i + 2 < len(morse_code) and morse_code[i:i+3] == ' / ', with i counted from 1
AtWordSeparator(morse_code, i) ==
  i + 2 <= Len(morse_code) /\ SubSeq(morse_code, i, i + 2) = <<" ", "/", " ">>

\* the body of an iteration for '.' or '-' (lines 121-130)
ElementSegments(self, morse_code, i, duration) ==
  <<generate_tone(self, duration)>>
    \o (IF NextIsElement(morse_code, i)
        THEN <<generate_silence(self, self.element_space)>> ELSE <<>>)

\* a scan that does not skip the rest of ' / '
RECURSIVE ScanLoop_no_skip(_, _, _, _)
ScanLoop_no_skip(self, morse_code, i, samples) ==
  IF ~(i <= Len(morse_code)) THEN samples
  ELSE LET char == morse_code[i]
       IN  IF char = "."
           THEN ScanLoop_no_skip(self, morse_code, i + 1,
                  samples \o ElementSegments(self, morse_code, i, self.dit_duration))
           ELSE IF char = "-"
           THEN ScanLoop_no_skip(self, morse_code, i + 1,
                  samples \o ElementSegments(self, morse_code, i, self.dah_duration))
           ELSE IF char = " "
           THEN IF AtWordSeparator(morse_code, i)
                THEN ScanLoop_no_skip(self, morse_code, i + 1,
                       Append(samples, generate_silence(self, self.word_space)))
                ELSE ScanLoop_no_skip(self, morse_code, i + 1,
                       Append(samples, generate_silence(self, self.letter_space)))
           ELSE ScanLoop_no_skip(self, morse_code, i + 1, samples)

morse_to_audio_samples_no_skip(self, morse_code) ==
  ScanLoop_no_skip(self, morse_code, 1, <<>>)

\* the while loop of lines 118-143; i is counted from 1.  '/' runs pass; a
\* character that is none of '.', '-', ' ' and '/' matches no branch.  Both
\* leave samples as it is and go on to i += 1.
RECURSIVE ScanLoop(_, _, _, _)
ScanLoop(self, morse_code, i, samples) ==
  IF ~(i <= Len(morse_code)) THEN samples
  ELSE LET char == morse_code[i]
       IN  IF char = "."
           THEN ScanLoop(self, morse_code, i + 1,
                  samples \o ElementSegments(self, morse_code, i, self.dit_duration))
           ELSE IF char = "-"
           THEN ScanLoop(self, morse_code, i + 1,
                  samples \o ElementSegments(self, morse_code, i, self.dah_duration))
           ELSE IF char = " "
           THEN IF AtWordSeparator(morse_code, i)
                THEN ScanLoop(self, morse_code, i + 2 + 1,
                       Append(samples, generate_silence(self, self.word_space)))
                ELSE ScanLoop(self, morse_code, i + 1,
                       Append(samples, generate_silence(self, self.letter_space)))
           ELSE ScanLoop(self, morse_code, i + 1, samples)

\* morse_to_audio_samples (lines 113-145)
morse_to_audio_samples(self, morse_code) == ScanLoop(self, morse_code, 1, <<>>)

\* MorseAudioGenerator(frequency, wpm, sample_rate) (line 76)
MorseAudioGeneratorAt(frequency, wpm, sample_rate) ==
  [MorseAudioGenerator(frequency, wpm) EXCEPT !.sample_rate = sample_rate]

\* the durations a generator passes to generate_tone and generate_silence
\* whose exact product with the sample rate is a whole number
WholeDurations(self) ==
  {d \in {self.dit_duration, self.dah_duration, self.element_space,
          self.letter_space, self.word_space} :
     IsWhole(Product(self.sample_rate, d))}

(***************************************************************************)
(* Synthesis of Morse strings: morse_to_audio_samples on every string up   *)
(* to MaxMorseLen over the four Morse characters and one foreign one.      *)
(***************************************************************************)
MaxMorseLen == 5

MorseAlphabet == {".", "-", " ", "/", "x"}

MorseChars == {".", "-", " ", "/"}

MorseStrings == UNION {[1..n -> MorseAlphabet] : n \in 0..MaxMorseLen}

SynthGenerators == {MorseAudioGenerator(700, 20), MorseAudioGenerator(800, 11)}

\* nothing but synthesis is going on
OthersIdleForSynth ==
  /\ CodecIdle
  /\ AppInit /\ HAS_SIMPLEAUDIO /\ HAS_WINSOUND
  /\ w_samples = <<>> /\ w_audio_data = <<>> /\ w_pc = "idle"
  /\ wav_file = "absent"

SynthInit ==
  /\ s_self \in SynthGenerators
  /\ s_fp \in SUBSET WholeDurations(s_self)
  /\ s_morse_code \in MorseStrings
  /\ s_duration = Rat(0, 1)
  /\ s_samples = <<>>
  /\ s_pc = "input"
  /\ OthersIdleForSynth

synthFrame ==
  UNCHANGED <<codecVars, appVars, s_self, s_fp, w_samples, w_audio_data, w_pc,
              wav_file>>

\* samples = self.morse_to_audio_samples(morse_code) (lines 163 and 174)
synthesize ==
  /\ s_pc = "input"
  /\ s_samples' = morse_to_audio_samples(s_self, s_morse_code)
  /\ s_pc' = "returned"
  /\ UNCHANGED <<s_morse_code, s_duration>>
  /\ synthFrame

SynthNext == synthesize

SynthSpec == SynthInit /\ [][SynthNext]_vars

\* the segments the scan is to emit for the rest of a Morse string
RECURSIVE RefScan(_, _)
RefScan(g, rest) ==
  IF rest = <<>> THEN <<>>
  ELSE IF Head(rest) \in {".", "-"}
  THEN <<[kind |-> "tone",
          duration |-> RatMul(Rat(12, 10 * g.wpm), IF Head(rest) = "." THEN 1 ELSE 3)]>>
         \o (IF Len(rest) >= 2 /\ rest[2] \in {".", "-"}
             THEN <<[kind |-> "silence", duration |-> Rat(12, 10 * g.wpm)]>>
             ELSE <<>>)
         \o RefScan(g, Tail(rest))
  ELSE IF StartsWith(rest, <<" ", "/", " ">>)
  THEN <<[kind |-> "silence", duration |-> RatMul(Rat(12, 10 * g.wpm), 7)]>>
         \o RefScan(g, SubSeq(rest, 4, Len(rest)))
  ELSE IF Head(rest) = " "
  THEN <<[kind |-> "silence", duration |-> RatMul(Rat(12, 10 * g.wpm), 3)]>>
         \o RefScan(g, Tail(rest))
  ELSE RefScan(g, Tail(rest))

SameSegments(samples, ref) ==
  /\ Len(samples) = Len(ref)
  /\ \A k \in DOMAIN samples :
       /\ samples[k].kind = ref[k].kind
       /\ RatEq(samples[k].duration, ref[k].duration)

OnlyMorseChars(morse_code) ==
  \A k \in DOMAIN morse_code : morse_code[k] \in MorseChars

\* C16: scanning a Morse string left to right, morse_to_audio_samples emits
\* for '.' a dit tone and for '-' a dah tone, each followed by an element gap
\* exactly when the next character is '.' or '-'; for a space that begins
\* ' / ' one word gap, resuming after the three characters; for any other
\* space one letter gap; for any other '/' nothing; the output is the
\* concatenation of these segments, in order.
C16_ScanEmitsSegments ==
  s_pc = "returned" /\ OnlyMorseChars(s_morse_code) =>
    SameSegments(s_samples, RefScan(s_self, s_morse_code))

\* "- / ." at 20 wpm: dah, word gap, dit
C16_Witness ==
  /\ s_pc = "returned"
  /\ s_morse_code = <<"-", " ", "/", " ", ".">>
  /\ s_self.wpm = 20
  /\ Len(s_samples) = 3
  /\ s_samples[1].kind = "tone" /\ RatEq(s_samples[1].duration, Rat(18, 100))
  /\ s_samples[2].kind = "silence" /\ RatEq(s_samples[2].duration, Rat(42, 100))
  /\ s_samples[3].kind = "tone" /\ RatEq(s_samples[3].duration, Rat(6, 100))

\* C19: synthesizing a Morse string that contains a character other than
\* '.', '-', space and '/' fails with an error and produces no waveform.
C19_ForeignCharRaises ==
  s_pc # "input" /\ ~OnlyMorseChars(s_morse_code) =>
    s_pc = "raised" /\ s_samples = <<>>

(***************************************************************************)
(* Single segments: generate_tone and generate_silence with the durations  *)
(* morse_to_audio_samples passes them, for every wpm of the clamped range  *)
(* and several sample rates.                                               *)
(***************************************************************************)
SampleRates == {8000, 11025, 22050, 44100, 48000}

SegmentGenerators ==
  {MorseAudioGeneratorAt(800, wpm, sample_rate) :
     wpm \in 5..40, sample_rate \in SampleRates}

SegmentInit ==
  /\ s_self \in SegmentGenerators
  /\ s_fp \in SUBSET WholeDurations(s_self)
  /\ s_morse_code = <<>>
  /\ s_duration = Rat(0, 1)
  /\ s_samples = <<>>
  /\ s_pc = "input"
  /\ OthersIdleForSynth

\* samples.extend(self.generate_tone(duration)) (lines 122 and 127)
tone_segment(duration) ==
  /\ s_pc = "input"
  /\ s_duration' = duration
  /\ s_samples' = <<generate_tone(s_self, duration)>>
  /\ s_pc' = "segment"
  /\ UNCHANGED s_morse_code
  /\ synthFrame

\* samples.extend(self.generate_silence(duration)) (lines 125, 130, 134, 138)
silence_segment(duration) ==
  /\ s_pc = "input"
  /\ s_duration' = duration
  /\ s_samples' = <<generate_silence(s_self, duration)>>
  /\ s_pc' = "segment"
  /\ UNCHANGED s_morse_code
  /\ synthFrame

SegmentNext ==
  \/ \E duration \in {s_self.dit_duration, s_self.dah_duration} :
       tone_segment(duration)
  \/ \E duration \in {s_self.element_space, s_self.letter_space,
                      s_self.word_space} :
       silence_segment(duration)

SegmentSpec == SegmentInit /\ [][SegmentNext]_vars

\* C17 (as written): the number of samples of a segment is
\* round(sample_rate x duration), also where the product is not whole.
C17_CountIsRounded ==
  s_pc = "segment" /\ s_self.wpm \in 5..40 =>
    \A k \in DOMAIN s_samples :
      LET x == Product(s_self.sample_rate, s_samples[k].duration)
      IN  ~IsWhole(x) => s_samples[k].len = round(x)

\* C17: for every wpm in 5..40 and every sample rate, the number n of samples
\* of a tone or silence segment is sample_rate x duration truncated, not
\* rounded: n <= sample_rate x duration <= n + 1, and n is below the product
\* whenever the product is not whole.
C17_CountIsTruncated ==
  s_pc = "segment" /\ s_self.wpm \in 5..40 =>
    \A k \in DOMAIN s_samples :
      LET x == Product(s_self.sample_rate, s_samples[k].duration)
          n == s_samples[k].len
      IN  /\ n * x.d <= x.n
          /\ x.n <= (n + 1) * x.d
          /\ ~IsWhole(x) => x.n < (n + 1) * x.d

\* a dit tone at 11 wpm and 44100 Hz: 4810 samples for 4810.9...
C17_Witness ==
  /\ s_pc = "segment"
  /\ s_self.wpm = 11 /\ s_self.sample_rate = 44100
  /\ s_samples = <<[kind |-> "tone", duration |-> s_self.dit_duration, len |-> 4810]>>

(***************************************************************************)
(* The samples of a tone (lines 93-106).  A sample is recorded by its      *)
(* envelope, a fraction in lowest terms; the sine it is multiplied with is *)
(* left out.                                                               *)
(***************************************************************************)
RECURSIVE GCD(_, _)
GCD(a, b) == IF b = 0 THEN a ELSE GCD(b, a % b)

\* a fraction in lowest terms over a positive denominator
Reduce(r) ==
  LET n == IF r.d > 0 THEN r.n ELSE -r.n
      d == IF r.d > 0 THEN r.d ELSE -r.d
      g == GCD(IF n >= 0 THEN n ELSE -n, d)
  IN  Rat(n \div g, d \div g)

\* a < b, a - b and a / b for fractions over positive denominators
RatLess(a, b) == a.n * b.d < b.n * a.d

RatSub(a, b) == Rat(a.n * b.d - b.n * a.d, a.d * b.d)

RatDiv(a, b) == Rat(a.n * b.d, a.d * b.n)

\* fade_time = 0.005 (line 98)
fade_time == Rat(1, 200)

\* envelope of sample i (lines 96-102)
envelope(self, duration, i) ==
  LET t == Rat(i, self.sample_rate)
  IN  IF RatLess(t, fade_time)
      THEN RatDiv(t, fade_time)
      ELSE IF RatLess(RatSub(duration, fade_time), t)
      THEN RatDiv(RatSub(duration, t), fade_time)
      ELSE Rat(1, 1)

\* the list generate_tone returns (lines 93-106), i of range(num_samples)
\* being k - 1
tone_samples(self, duration) ==
  [k \in 1..Max(0, num_samples(self, duration)) |->
     [envelope |-> Reduce(envelope(self, duration, k - 1))]]

MaxToneWpm == 200

\* at 8000 Hz every wpm, at 44100 Hz those of tones up to a few hundred samples
ToneGenerators ==
  {MorseAudioGeneratorAt(800, wpm, 8000) : wpm \in 5..MaxToneWpm}
    \cup {MorseAudioGeneratorAt(800, wpm, 44100) : wpm \in 150..MaxToneWpm}

ToneInit ==
  /\ s_self \in ToneGenerators
  /\ s_fp \in SUBSET WholeDurations(s_self)
  /\ s_morse_code = <<>>
  /\ s_duration \in {s_self.dit_duration, s_self.dah_duration}
  /\ s_samples = <<>>
  /\ s_pc = "input"
  /\ OthersIdleForSynth

\* self.generate_tone(duration) (lines 122 and 127), sample by sample
tone ==
  /\ s_pc = "input"
  /\ s_samples' = tone_samples(s_self, s_duration)
  /\ s_pc' = "tone"
  /\ UNCHANGED <<s_morse_code, s_duration>>
  /\ synthFrame

ToneNext == tone

ToneSpec == ToneInit /\ [][ToneNext]_vars

\* min(t / 5 ms, (duration - t) / 5 ms, 1) for sample i, in lowest terms
RefEnvelope(self, duration, i) ==
  LET D == duration.d * self.sample_rate
      ramp_in == 200 * i * duration.d
      ramp_out == 200 * (duration.n * self.sample_rate - i * duration.d)
  IN  Reduce(Rat(Min(Min(ramp_in, ramp_out), D), D))

\* C18: the envelope of each sample of a tone is the minimum of t / 5 ms,
\* (duration - t) / 5 ms and 1, and lies in [0, 1], also for tones shorter
\* than 10 ms.
C18_EnvelopeIsMinimum ==
  s_pc = "tone" =>
    \A k \in DOMAIN s_samples :
      /\ s_samples[k].envelope = RefEnvelope(s_self, s_duration, k - 1)
      /\ 0 <= s_samples[k].envelope.n
      /\ s_samples[k].envelope.n <= s_samples[k].envelope.d

(***************************************************************************)
(* samples_to_wav_data (lines 147-159).  Here a samples list is the        *)
(* sequence of its samples, each a fraction over a positive denominator;   *)
(* audio_data is the sequence of its bytes.                                *)
(***************************************************************************)
\* abs(s)
abs(r) == IF r.n >= 0 THEN r ELSE Rat(-r.n, r.d)

\* max(abs(s) for s in samples)
RECURSIVE MaxAbs(_)
MaxAbs(samples) ==
  IF Len(samples) = 1 THEN abs(samples[1])
  ELSE LET rest == MaxAbs(Tail(samples))
       IN  IF RatLess(rest, abs(samples[1])) THEN abs(samples[1]) ELSE rest

\* max_val after lines 150-152
max_val(samples) ==
  LET m == IF samples # <<>> THEN MaxAbs(samples) ELSE Rat(1, 1)
  IN  IF m.n = 0 THEN Rat(1, 1) ELSE m

\* (sample / max_val) * 32767 * 0.8 (line 156)
Scaled(sample, peak) ==
  Rat(sample.n * peak.d * 32767 * 8, sample.d * peak.n * 10)

\* struct.pack('<h', v): two's complement, low byte first
pack_h(v) ==
  LET u == IF v >= 0 THEN v ELSE v + 65536
  IN  <<u % 256, u \div 256>>

RECURSIVE PackLoop(_, _, _)
PackLoop(samples, peak, audio_data) ==
  IF samples = <<>> THEN audio_data
  ELSE PackLoop(Tail(samples), peak,
                audio_data \o pack_h(int(Scaled(Head(samples), peak))))

\* a conversion at full scale, without the factor 0.8
RECURSIVE PackLoop_full_scale(_, _, _)
PackLoop_full_scale(samples, peak, audio_data) ==
  IF samples = <<>> THEN audio_data
  ELSE PackLoop_full_scale(Tail(samples), peak,
         audio_data \o pack_h(int(Rat(Head(samples).n * peak.d * 32767,
                                      Head(samples).d * peak.n))))

samples_to_wav_data_full_scale(samples) ==
  PackLoop_full_scale(samples, max_val(samples), <<>>)

\* a conversion that rounds where the source truncates
RECURSIVE PackLoop_rounded(_, _, _)
PackLoop_rounded(samples, peak, audio_data) ==
  IF samples = <<>> THEN audio_data
  ELSE PackLoop_rounded(Tail(samples), peak,
         audio_data \o pack_h(round(Scaled(Head(samples), peak))))

samples_to_wav_data_rounded(samples) ==
  PackLoop_rounded(samples, max_val(samples), <<>>)

samples_to_wav_data(samples) == PackLoop(samples, max_val(samples), <<>>)

MaxSamples == 3

SampleDen == 4

\* the sample values -1, ..., -1/SampleDen, 0, 1/SampleDen, ..., 1
SampleValues == {Rat(k, SampleDen) : k \in -SampleDen..SampleDen}

Waveforms == UNION {[1..n -> SampleValues] : n \in 0..MaxSamples}

PcmInit ==
  /\ w_samples \in Waveforms
  /\ w_audio_data = <<>>
  /\ w_pc = "input"
  /\ CodecIdle
  /\ AppInit /\ HAS_SIMPLEAUDIO /\ HAS_WINSOUND
  /\ s_self = MorseAudioGenerator(700, 20)
  /\ s_fp = {}
  /\ s_morse_code = <<>>
  /\ s_duration = Rat(0, 1)
  /\ s_samples = <<>>
  /\ s_pc = "idle"
  /\ wav_file = "absent"

\* audio_data = self.samples_to_wav_data(samples) (lines 164 and 175)
pack_samples ==
  /\ w_pc = "input"
  /\ w_audio_data' = samples_to_wav_data(w_samples)
  /\ w_pc' = "packed"
  /\ UNCHANGED <<codecVars, appVars, s_self, s_fp, s_morse_code, s_duration,
                 s_samples, s_pc, w_samples, wav_file>>

PcmNext == pack_samples

PcmSpec == PcmInit /\ [][PcmNext]_vars

\* the 16-bit integer held by bytes 2k - 1 and 2k of audio_data
Int16At(audio_data, k) ==
  LET u == audio_data[2 * k - 1] + 256 * audio_data[2 * k]
  IN  IF u >= 32768 THEN u - 65536 ELSE u

Magnitude(v) == IF v >= 0 THEN v ELSE -v

AllZero(samples) == \A k \in DOMAIN samples : samples[k].n = 0

\* C12: samples_to_wav_data emits 2 bytes per sample; every 16-bit integer
\* emitted has magnitude at most 26214; n zero samples give 2n zero bytes;
\* no samples give no bytes.
C12_PcmSizeAndRange ==
  w_pc = "packed" =>
    /\ Len(w_audio_data) = 2 * Len(w_samples)
    /\ \A j \in DOMAIN w_audio_data : w_audio_data[j] \in 0..255
    /\ \A k \in DOMAIN w_samples : Magnitude(Int16At(w_audio_data, k)) <= 26214
    /\ AllZero(w_samples) => \A j \in DOMAIN w_audio_data : w_audio_data[j] = 0
    /\ w_samples = <<>> => w_audio_data = <<>>

\* two zero samples have been converted to four zero bytes
C12_Witness ==
  /\ w_pc = "packed"
  /\ w_samples = <<Rat(0, SampleDen), Rat(0, SampleDen)>>
  /\ w_audio_data = <<0, 0, 0, 0>>

\* C20 (as written): every sample is encoded as
\* round((sample / peak) x 32767 x 0.8), a sample at the peak as +/-26214.
C20_PcmIsRounded ==
  w_pc = "packed" =>
    \A k \in DOMAIN w_samples :
      Int16At(w_audio_data, k) = round(Scaled(w_samples[k], max_val(w_samples)))

\* C20: every sample of a non-empty waveform is encoded as
\* (sample / peak) x 32767 x 0.8 truncated toward zero, peak being the largest
\* absolute sample value, or 1 if that is 0; a sample at the peak is encoded
\* as +/-26213.
C20_PcmIsTruncated ==
  w_pc = "packed" =>
    \A k \in DOMAIN w_samples :
      LET x == Scaled(w_samples[k], max_val(w_samples))
          v == Int16At(w_audio_data, k)
      IN  /\ x.n >= 0 => v * x.d <= x.n /\ x.n < (v + 1) * x.d
          /\ x.n <= 0 => (v - 1) * x.d < x.n /\ x.n <= v * x.d
          /\ RatEq(abs(w_samples[k]), max_val(w_samples)) =>
               Magnitude(v) = 26213

\* the samples 1 and -1/2: 26213 and -13106, for 26213.6 and -13106.8
C20_Witness ==
  /\ w_pc = "packed"
  /\ w_samples = <<Rat(SampleDen, SampleDen), Rat(-2, SampleDen)>>
  /\ Int16At(w_audio_data, 1) = 26213
  /\ Int16At(w_audio_data, 2) = -13106
  /\ w_audio_data = <<101, 102, 206, 204>>

(***************************************************************************)
(* Export to a WAV file (lines 161-170 and 524-545).  The file at the      *)
(* chosen path is "absent", "old" (what was there before), "partial" (a    *)
(* header and a part of the frames) or "complete".                         *)
(***************************************************************************)

\* the file at filename after save_wav: wave.open(filename, 'w') creates or
\* truncates it, writeframes writes the header and the frames into it, and
\* nothing removes it when a write raises
WavFileAfterSave(r) ==
  IF r = "ok" THEN "complete" ELSE IF r = "write_fails" THEN "partial" ELSE wav_file

\* export_morse_wav (lines 524-545); path_chosen is whether the file dialog
\* returned a path, r how save_wav ends.  The callbacks scheduled after
\* 2000 and 3000 ms are the same one.
export_morse_wav(entry_empty, path_chosen, r) ==
  /\ phase = "running"
  /\ Len(timers) < MaxTimers
  /\ IF entry_empty
     THEN /\ morse_status' = "No Morse code to export"
          /\ timers' = AfterDelay(timers, "clear_status")
          /\ UNCHANGED wav_file
     ELSE IF ~path_chosen
     THEN UNCHANGED <<morse_status, timers, wav_file>>
     ELSE /\ wav_file' = WavFileAfterSave(r)
          /\ morse_status' = IF r = "ok" THEN "Exported" ELSE "Error"
          /\ timers' = AfterDelay(timers, "clear_status")
  /\ UNCHANGED <<codecVars, synthVars, phase, HAS_SIMPLEAUDIO, HAS_WINSOUND,
                 morse_frequency, morse_wpm, morse_generator, is_playing,
                 play_btn, threads, temp_file, n_calls, n_rejected>>

ExportInit ==
  /\ CodecIdle
  /\ AppInit
  /\ SynthIdle
  /\ wav_file \in {"absent", "old"}

ExportNext ==
  \/ \E config \in ConfigFiles : load_config(config)
  \/ \E entry_empty \in BOOLEAN, path_chosen \in BOOLEAN, r \in SaveWavResults :
       export_morse_wav(entry_empty, path_chosen, r)
  \/ Tick
  \/ clear_status

ExportSpec == ExportInit /\ [][ExportNext]_vars

\* C13: when save_wav fails with an I/O error the error reaches the caller
\* and no partial file is left at the target path: the path holds the
\* complete container or nothing readable of this export.
C13_NoPartialFile == wav_file # "partial"

(***************************************************************************)
(* Stored settings and the generator                                       *)
(***************************************************************************)
\* C21: after any sequence of load_config, on_freq_change and on_wpm_change,
\* also where constructing the generator raises and the exception is
\* swallowed, the generator held by the app has frequency equal to
\* morse_frequency and wpm equal to morse_wpm.
C21_SettingsMatchGenerator ==
  /\ morse_generator.frequency = morse_frequency
  /\ morse_generator.wpm = morse_wpm

(***************************************************************************)
(* From text to waveform: a text is encoded by text_to_morse and the       *)
(* result, as the Morse entry holds it, is synthesized by the app's        *)
(* generator.                                                              *)
(***************************************************************************)
PipelineInit ==
  /\ c_in \in CodecInputs
  /\ c_op = "input"
  /\ c_out = <<>>
  /\ AppInit /\ HAS_SIMPLEAUDIO /\ HAS_WINSOUND
  /\ s_self = MorseAudioGenerator(700, 20)
  /\ s_fp \in SUBSET WholeDurations(s_self)
  /\ s_morse_code = <<>>
  /\ s_duration = Rat(0, 1)
  /\ s_samples = <<>>
  /\ s_pc = "idle"
  /\ w_samples = <<>> /\ w_audio_data = <<>> /\ w_pc = "idle"
  /\ wav_file = "absent"

\* morse_code = self.morse_entry.get().strip() (lines 490 and 526), then
\* samples = self.morse_to_audio_samples(morse_code) (lines 163 and 174)
synthesize_encoded ==
  /\ c_op = "encoded"
  /\ s_pc = "idle"
  /\ s_morse_code' = strip(c_out)
  /\ s_samples' = morse_to_audio_samples(s_self, strip(c_out))
  /\ s_pc' = "returned"
  /\ UNCHANGED s_duration
  /\ synthFrame

PipelineNext == convert_to_morse \/ synthesize_encoded

PipelineSpec == PipelineInit /\ [][PipelineNext]_vars

\* the values i takes in the while loop of lines 118-143, counted from 1
RECURSIVE ScanIndices(_, _)
ScanIndices(morse_code, i) ==
  IF ~(i <= Len(morse_code)) THEN {}
  ELSE {i} \cup ScanIndices(morse_code,
                IF morse_code[i] = " " /\ AtWordSeparator(morse_code, i)
                THEN i + 2 + 1 ELSE i + 1)

\* the iterations that take the branch of '/' (lines 139-141)
SlashBranchTaken(morse_code) ==
  {i \in ScanIndices(morse_code, 1) : morse_code[i] = "/"}

\* the tones of one letter, one element gap between neighbours
RefLetterSegments(g, pat) ==
  Interleave(
    [k \in DOMAIN pat |->
       <<[kind |-> "tone",
          duration |-> RatMul(Rat(12, 10 * g.wpm), IF pat[k] = "." THEN 1 ELSE 3)]>>],
    <<[kind |-> "silence", duration |-> Rat(12, 10 * g.wpm)]>>)

\* the letters of one word, one letter gap between neighbours
RefWordSegments(g, w) ==
  LET kept == SelectSeq(w, IsSupported)
  IN  Interleave(
        [k \in DOMAIN kept |-> RefLetterSegments(g, PatternOf(kept[k]))],
        <<[kind |-> "silence", duration |-> RatMul(Rat(12, 10 * g.wpm), 3)]>>)

\* the words of a text, one word gap between neighbours
RefTextSegments(g, text) ==
  LET ws == WordsOf(upper(text))
      groups == SelectSeq([k \in DOMAIN ws |-> RefWordSegments(g, ws[k])], NonEmpty)
  IN  Interleave(groups,
                 <<[kind |-> "silence", duration |-> RatMul(Rat(12, 10 * g.wpm), 7)]>>)

\* C22: for every Morse string text_to_morse produces, the segments of
\* morse_to_audio_samples start and end with a tone (unless the string is
\* empty), tones and silences alternate, and the one silence between two
\* consecutive tones is an element gap (1 dit) inside a letter, a letter gap
\* (3 dits) between letters of a word and a word gap (7 dits) between words;
\* the branch of a bare '/' is never taken.
C22_GapStructure ==
  s_pc = "returned" =>
    /\ s_morse_code = c_out
    /\ s_morse_code # <<>> =>
         /\ s_samples # <<>>
         /\ s_samples[1].kind = "tone"
         /\ s_samples[Len(s_samples)].kind = "tone"
    /\ s_morse_code = <<>> => s_samples = <<>>
    /\ \A k \in 1..(Len(s_samples) - 1) : s_samples[k].kind # s_samples[k + 1].kind
    /\ SameSegments(s_samples, RefTextSegments(s_self, c_in))
    /\ SlashBranchTaken(s_morse_code) = {}

\* "eT e": dit, letter gap, dah, word gap, dit
C22_Witness ==
  /\ s_pc = "returned"
  /\ c_in = <<"e", "T", " ", "e">>
  /\ s_morse_code = <<".", " ", "-", " ", "/", " ", ".">>
  /\ Len(s_samples) = 5
  /\ s_samples[2].kind = "silence" /\ RatEq(s_samples[2].duration, Rat(18, 100))
  /\ s_samples[4].kind = "silence" /\ RatEq(s_samples[4].duration, Rat(42, 100))
====
